---- MODULE Spec2Model ----
(***************************************************************************)
(* ICOMarketplace (src/unnamed/part_000): the token registry, buyToken,    *)
(* widthdrawToken and the direct-payment guard, as a state machine over    *)
(* one ledger.  An external call that hands control to another contract    *)
(* (the payment forwarded to the creator in buyToken) is a point where the *)
(* running call is suspended on a call stack; a failed call restores the   *)
(* ledger to what it was when the call began (EVM revert).                 *)
(***************************************************************************)
EXTENDS Integers, Sequences, FiniteSets, TLC

\* ------------------------------------------------------------------ bounds
\* uint256 is modelled as an unsigned word of WordBits bits.
WordBits == 4
Modulus == 2 ^ WordBits
\* 10**18, the base-unit factor of buyToken, scaled to the modelled word.
UNIT == 4
\* successful operations in one behaviour (each appends one event)
MaxEvents == 3
\* nested calls in flight
MaxDepth == 2
\* native currency each account starts with, tokens each holder starts with
InitEth == 3
InitTok == 12

EOAs == {"o"}
Contracts == {"m"}
Accounts == EOAs \cup Contracts
Engine == "engine"
ZeroAddress == "0x0"
Holders == Accounts \cup {Engine}
Tokens == {"A", "B"}
Prices == {0, 1}
\* amounts bought: none, one whole token, one whose cost at price 1 fits the
\* word while its scaled amount does not, and one too large for the word
BuyAmounts == {0, 1, Modulus \div UNIT + 1, Modulus}
\* raw units withdrawn
WithdrawAmounts == {0, 1, 2 * UNIT}
Values == {0, 1, 2}
TransferModes == {"normal", "returnsFalse", "throws"}
Deposits == {2 * UNIT}

VARIABLES
    tokenDetails,        \* mapping(address => TokenDetails)
    allSupportedTokens,  \* address[]
    owner,               \* address
    eth,                 \* native-currency balance of every address
    tok,                 \* tok[t][h]: balanceOf(h) in token t
    events,              \* the emitted events, in order
    deposited,           \* deposited[t]: units of t ever transferred into the engine
    stack,               \* buyToken calls suspended in the creator's payment handler
    last,                \* the call made by the latest step and how it ended
    pre,                 \* the ledger when that call began
    \* AuthProvider (src/unnamed/part_002)
    user,                \* useState<User | null>
    session,             \* useState<Session | null>
    loading,             \* useState(true)
    isAdmin,             \* useState(false)
    adminRole,           \* useState<string | null>
    adminCache,          \* what setCachedData has stored under admin_status_<id>
    sessionPending,      \* supabase.auth.getSession() has not resolved yet
    pendingChecks,       \* the users of the checkAdminStatus calls awaiting the database
    pendingProfiles,     \* auth-change handlers awaiting createUserProfile / ensureUserProfile
    signOutPending       \* a signOut() awaiting supabase.auth.signOut()

engineVars == <<tokenDetails, allSupportedTokens, owner, eth, tok, events, deposited, stack, last, pre>>
authVars == <<user, session, loading, isAdmin, adminRole, adminCache, sessionPending,
              pendingChecks, pendingProfiles, signOutPending>>
vars == <<engineVars, authVars>>

\* ------------------------------------------------------------------ IERC20
NameOf(t) == IF t = "A" THEN "Alpha" ELSE "Beta"
SymbolOf(t) == IF t = "A" THEN "ALP" ELSE "BET"

\* (mutation of TokenTransfer: a token that never looks at the sender's balance)
TokenTransferUnchecked(bal, from, to, n, mode) ==
    IF mode = "throws" THEN [status |-> "throw", bal |-> bal]
    ELSE IF mode = "returnsFalse" THEN [status |-> "false", bal |-> bal]
    ELSE [status |-> "true", bal |-> [bal EXCEPT ![from] = @ - n, ![to] = @ + n]]

\* IERC20.transfer as a conforming token runs it: moves n from -> to when from
\* holds n, throws otherwise; a token may also refuse by returning false or by
\* throwing.
TokenTransfer(bal, from, to, n, mode) ==
    IF mode = "throws" THEN [status |-> "throw", bal |-> bal]
    ELSE IF mode = "returnsFalse" THEN [status |-> "false", bal |-> bal]
    ELSE IF bal[from] < n THEN [status |-> "throw", bal |-> bal]
    ELSE [status |-> "true", bal |-> [bal EXCEPT ![from] = @ - n, ![to] = @ + n]]

\* ------------------------------------------------------------------ engine
NoListing ==
    [token |-> ZeroAddress, supported |-> FALSE, price |-> 0,
     creator |-> ZeroAddress, name |-> "", symbol |-> ""]

\* checked multiplication of Solidity 0.8: reverts when the product leaves the word
CheckedMul(x, y) == [ok |-> x * y < Modulus, val |-> (x * y) % Modulus]

\* (mutation of multiply: the product wraps and nothing is checked)
multiplyUnchecked(x, y) == [ok |-> TRUE, z |-> (x * y) % Modulus]

multiply(x, y) ==
    IF y = 0 THEN [ok |-> TRUE, z |-> 0]
    ELSE LET m == CheckedMul(x, y)
         IN  [ok |-> m.ok /\ (m.val \div y = x), z |-> m.val]

Ledger ==
    [tokenDetails |-> tokenDetails, allSupportedTokens |-> allSupportedTokens,
     eth |-> eth, tok |-> tok, events |-> events, deposited |-> deposited]

Top == stack[Len(stack)]

Call(op, t, arg, value, sender, err) ==
    [op |-> op, token |-> t, arg |-> arg, value |-> value, sender |-> sender, err |-> err]

\* no call is being reported
Idle == Call("none", ZeroAddress, 0, 0, ZeroAddress, "none")

\* Who can make a call now, the latest call having been reported: anyone when
\* nothing is running; while a buyToken is suspended in the payment handler of
\* its creator, only that contract.
CanCall(sender) ==
    /\ last = Idle
    /\ IF stack = <<>> THEN sender \in Accounts
       ELSE sender = Top.creator /\ sender \in Contracts

\* A call is made only while the log has room for its event and for the event
\* of every call suspended around it.
Room == Len(events) + Len(stack) < MaxEvents

\* ------------------------------------------------------------- AuthProvider
\* checkAdminStatus calls and profile continuations in flight at one time
MaxPending == 2

Users == {"a", "u"}
NoUser == "null"
NoRole == "null"
ADMIN_USER_ID == "a"
AuthEvents == {"SIGNED_IN", "SIGNED_UP", "SIGNED_OUT", "TOKEN_REFRESHED"}

\* the active row of admin_roles for u, if there is one
DbRole(u) == IF u = "a" THEN "admin" ELSE NoRole

\* nothing is cached under a key
NoEntry == [isAdmin |-> FALSE, adminRole |-> "none"]

\* the state of the provider at its first render, lines 29-33
AuthStart ==
    /\ user = NoUser
    /\ session = NoUser
    /\ loading = TRUE
    /\ isAdmin = FALSE
    /\ adminRole = NoRole
    /\ adminCache = [u \in Users |-> NoEntry]
    /\ sessionPending = TRUE
    /\ pendingChecks = [u \in Users |-> 0]
    /\ pendingProfiles = 0
    /\ signOutPending = FALSE

Init ==
    /\ tokenDetails = [t \in Tokens |-> NoListing]
    /\ allSupportedTokens = <<>>
    /\ owner = "o"
    /\ eth = [h \in Holders |-> IF h = Engine THEN 0 ELSE InitEth]
    /\ tok = [t \in Tokens |-> [h \in Holders |-> IF h = "o" THEN InitTok ELSE 0]]
    /\ events = <<>>
    /\ deposited = [t \in Tokens |-> 0]
    /\ stack = <<>>
    /\ last = Idle
    /\ pre = Ledger
    /\ AuthStart

\* (mutation of NewListing: a listing that exists is kept, first registration wins)
NewListingKeepFirst(old, t, price, sender) ==
    IF old.supported THEN old
    ELSE [token |-> t, supported |-> TRUE, price |-> price,
          creator |-> sender, name |-> NameOf(t), symbol |-> SymbolOf(t)]

\* (mutation of NewListing: registering a listed identifier takes it off sale)
NewListingToggle(old, t, price, sender) ==
    IF old.supported THEN NoListing
    ELSE [token |-> t, supported |-> TRUE, price |-> price,
          creator |-> sender, name |-> NameOf(t), symbol |-> SymbolOf(t)]

\* (mutation of NewListing: a re-registration sets the price and leaves the
\* creator)
NewListingKeepCreator(old, t, price, sender) ==
    [token |-> t, supported |-> TRUE, price |-> price,
     creator |-> IF old.supported THEN old.creator ELSE sender,
     name |-> NameOf(t), symbol |-> SymbolOf(t)]

\* the TokenDetails written by createICOSale over the listing old
NewListing(old, t, price, sender) ==
    [token |-> t, supported |-> TRUE, price |-> price,
     creator |-> sender, name |-> NameOf(t), symbol |-> SymbolOf(t)]

\* (mutations of IndexPush: the identifier is put first; a known identifier
\* is not pushed again)
IndexPushFront(idx, t) == <<t>> \o idx
IndexPushOnce(idx, t) ==
    IF \E i \in DOMAIN idx : idx[i] = t THEN idx ELSE Append(idx, t)

\* (mutation of IndexPush: the listing is written and the index left alone)
IndexPushNone(idx, t) == idx

\* allSupportedTokens.push(_token)
IndexPush(idx, t) == Append(idx, t)

\* createICOSale(_token, _price) on the ledger cur; the listing is written
\* over whatever is stored for _token
Registration(cur, sender, t, price) ==
    [cur EXCEPT
        !.tokenDetails = [cur.tokenDetails EXCEPT ![t] =
            NewListing(cur.tokenDetails[t], t, price, sender)],
        !.allSupportedTokens = IndexPush(cur.allSupportedTokens, t),
        !.events = Append(cur.events,
            [type |-> "TokenAdded", token |-> t, price |-> price,
             creator |-> sender, name |-> NameOf(t), symbol |-> SymbolOf(t)])]

\* (mutation of Forward: currency the engine sends out stays with the engine)
ForwardStuck(bal, from, to, v) ==
    IF from = Engine THEN bal ELSE [bal EXCEPT ![from] = @ - v, ![to] = @ + v]

\* a native-currency transfer of v from one address to another
Forward(bal, from, to, v) == [bal EXCEPT ![from] = @ - v, ![to] = @ + v]

\* (mutation of PaymentMatches: any payment that covers the cost is taken)
PaymentCovers(value, totalCost) == value >= totalCost

\* (mutation of PaymentMatches: a purchase has to be paid for)
PaymentPositive(value, totalCost) == value = totalCost /\ value > 0

\* require(msg.value == totalCost)
PaymentMatches(value, totalCost) == value = totalCost

\* (mutation of BuyCheck: the amount is looked at before the listing)
BuyCheckAmountFirst(d, amount, value) ==
    IF ~(amount > 0) THEN "InvalidAmount"
    ELSE IF ~d.supported THEN "NotSupported"
    ELSE IF ~multiply(d.price, amount).ok THEN "ArithmeticOverflow"
    ELSE IF ~PaymentMatches(value, multiply(d.price, amount).z) THEN "IncorrectPayment"
    ELSE "pending"

\* (mutation of BuyCheck: the payment is compared before the amount is looked at)
BuyCheckPaymentFirst(d, amount, value) ==
    IF ~d.supported THEN "NotSupported"
    ELSE IF ~PaymentMatches(value, multiply(d.price, amount).z) THEN "IncorrectPayment"
    ELSE IF ~(amount > 0) THEN "InvalidAmount"
    ELSE IF ~multiply(d.price, amount).ok THEN "ArithmeticOverflow"
    ELSE "pending"

\* buyToken, lines 83-88: the supportedToken modifier and the three requires
\* before the payment is forwarded; "pending" when all pass
BuyCheck(d, amount, value) ==
    IF ~d.supported THEN "NotSupported"
    ELSE IF ~(amount > 0) THEN "InvalidAmount"
    ELSE IF ~multiply(d.price, amount).ok THEN "ArithmeticOverflow"
    ELSE IF ~PaymentMatches(value, multiply(d.price, amount).z) THEN "IncorrectPayment"
    ELSE "pending"

\* (mutation of ScaledAmount: the amount is transferred unscaled)
ScaledAmountRaw(amount) == [ok |-> TRUE, val |-> amount]

\* (mutation of ScaledAmount: unchecked arithmetic, the product wraps)
ScaledAmountWraps(amount) == [ok |-> TRUE, val |-> (amount * UNIT) % Modulus]

\* _amount * 10**18, in checked arithmetic
ScaledAmount(amount) == CheckedMul(amount, UNIT)

\* (mutation of Reverted: the failed call returns without reverting)
NotReverted(f, cur) == cur

\* (mutation of Reverted: the registry written inside the failed call is kept)
RevertedKeepRegistry(f, cur) ==
    [f.snap EXCEPT !.tokenDetails = cur.tokenDetails,
                   !.allSupportedTokens = cur.allSupportedTokens]

\* A require that fails reverts the call f running on the ledger cur: the
\* ledger is again what it was when f began, the forwarded payment included.
Reverted(f, cur) == f.snap

\* (mutation of Settle: the value transfer returns is not looked at, only a
\* throw stops the purchase)
SettleIgnoresFalse(f, cur, accept, mode) ==
    LET scaled == ScaledAmount(f.amount)
        tr == TokenTransfer(cur.tok[f.token], Engine, f.sender, scaled.val, mode)
    IN  IF ~accept THEN [err |-> "PaymentForwardingFailed", ledger |-> Reverted(f, cur)]
        ELSE IF ~scaled.ok THEN [err |-> "Panic", ledger |-> Reverted(f, cur)]
        ELSE IF tr.status = "throw" THEN [err |-> "TransferFailed", ledger |-> Reverted(f, cur)]
        ELSE [err |-> "ok",
              ledger |-> [cur EXCEPT
                  !.tok = [cur.tok EXCEPT ![f.token] = tr.bal],
                  !.events = Append(cur.events,
                      [type |-> "TokenTransferred", token |-> f.token,
                       to |-> f.sender, amount |-> f.amount])]]

\* (mutation of Settle: the event carries the scaled amount)
SettleLogsScaled(f, cur, accept, mode) ==
    LET scaled == ScaledAmount(f.amount)
        tr == TokenTransfer(cur.tok[f.token], Engine, f.sender, scaled.val, mode)
    IN  IF ~accept THEN [err |-> "PaymentForwardingFailed", ledger |-> Reverted(f, cur)]
        ELSE IF ~scaled.ok THEN [err |-> "Panic", ledger |-> Reverted(f, cur)]
        ELSE IF tr.status # "true" THEN [err |-> "TransferFailed", ledger |-> Reverted(f, cur)]
        ELSE [err |-> "ok",
              ledger |-> [cur EXCEPT
                  !.tok = [cur.tok EXCEPT ![f.token] = tr.bal],
                  !.events = Append(cur.events,
                      [type |-> "TokenTransferred", token |-> f.token,
                       to |-> f.sender, amount |-> scaled.val])]]

\* buyToken from the return of the payment call to its end, lines 92-98, for
\* the suspended call f on the ledger cur: the error and the ledger it leaves.
Settle(f, cur, accept, mode) ==
    LET scaled == ScaledAmount(f.amount)
        tr == TokenTransfer(cur.tok[f.token], Engine, f.sender, scaled.val, mode)
    IN  IF ~accept THEN [err |-> "PaymentForwardingFailed", ledger |-> Reverted(f, cur)]
        ELSE IF ~scaled.ok THEN [err |-> "Panic", ledger |-> Reverted(f, cur)]
        ELSE IF tr.status # "true" THEN [err |-> "TransferFailed", ledger |-> Reverted(f, cur)]
        ELSE [err |-> "ok",
              ledger |-> [cur EXCEPT
                  !.tok = [cur.tok EXCEPT ![f.token] = tr.bal],
                  !.events = Append(cur.events,
                      [type |-> "TokenTransferred", token |-> f.token,
                       to |-> f.sender, amount |-> f.amount])]]

\* (mutation of WithdrawCheck: the deployer may withdraw any token)
WithdrawCheckOwnerToo(d, sender, amount, held) ==
    IF sender # d.creator /\ sender # owner THEN "Unauthorized"
    ELSE IF ~d.supported THEN "NotSupported"
    ELSE IF ~(amount > 0) THEN "InvalidAmount"
    ELSE IF ~(held >= amount) THEN "InsufficientBalance"
    ELSE "pass"

\* (mutation of WithdrawCheck: the engine must hold more than is asked for)
WithdrawCheckStrict(d, sender, amount, held) ==
    IF sender # d.creator THEN "Unauthorized"
    ELSE IF ~d.supported THEN "NotSupported"
    ELSE IF ~(amount > 0) THEN "InvalidAmount"
    ELSE IF ~(held > amount) THEN "InsufficientBalance"
    ELSE "pass"

\* (mutation of WithdrawCheck: supportedToken runs before onlyCreator)
WithdrawCheckSupportedFirst(d, sender, amount, held) ==
    IF ~d.supported THEN "NotSupported"
    ELSE IF sender # d.creator THEN "Unauthorized"
    ELSE IF ~(amount > 0) THEN "InvalidAmount"
    ELSE IF ~(held >= amount) THEN "InsufficientBalance"
    ELSE "pass"

\* widthdrawToken, lines 113-118: onlyCreator, supportedToken and the requires
\* before the transfer; "pass" when all pass
WithdrawCheck(d, sender, amount, held) ==
    IF sender # d.creator THEN "Unauthorized"
    ELSE IF ~d.supported THEN "NotSupported"
    ELSE IF ~(amount > 0) THEN "InvalidAmount"
    ELSE IF ~(held >= amount) THEN "InsufficientBalance"
    ELSE "pass"

\* (mutation of Withdrawal: the amount is scaled by 10**18 as in buyToken)
WithdrawalScaled(cur, sender, t, amount, mode) ==
    LET err == WithdrawCheck(cur.tokenDetails[t], sender, amount, cur.tok[t][Engine])
        tr == TokenTransfer(cur.tok[t], Engine, sender, amount * UNIT, mode)
    IN  IF err # "pass" THEN [err |-> err, ledger |-> cur]
        ELSE IF tr.status # "true" THEN [err |-> "TransferFailed", ledger |-> cur]
        ELSE [err |-> "ok",
              ledger |-> [cur EXCEPT
                  !.tok = [cur.tok EXCEPT ![t] = tr.bal],
                  !.events = Append(cur.events,
                      [type |-> "TokenWidthdraw", token |-> t,
                       to |-> sender, amount |-> amount])]]

\* widthdrawToken(_token, _amount) on the ledger cur
Withdrawal(cur, sender, t, amount, mode) ==
    LET err == WithdrawCheck(cur.tokenDetails[t], sender, amount, cur.tok[t][Engine])
        tr == TokenTransfer(cur.tok[t], Engine, sender, amount, mode)
    IN  IF err # "pass" THEN [err |-> err, ledger |-> cur]
        ELSE IF tr.status # "true" THEN [err |-> "TransferFailed", ledger |-> cur]
        ELSE [err |-> "ok",
              ledger |-> [cur EXCEPT
                  !.tok = [cur.tok EXCEPT ![t] = tr.bal],
                  !.events = Append(cur.events,
                      [type |-> "TokenWidthdraw", token |-> t,
                       to |-> sender, amount |-> amount])]]

\* (mutation of DirectPayment: the engine keeps what it is sent)
DirectPaymentKept(cur, sender, value) ==
    [err |-> "ok", ledger |-> [cur EXCEPT !.eth = Forward(cur.eth, sender, Engine, value)]]

\* receive(), lines 51-53: revert, whoever sends and whatever is sent
DirectPayment(cur, sender, value) ==
    [err |-> "DirectPaymentRejected", ledger |-> cur]

\* (mutation of CountLoop: an identifier is counted once however often it is
\* in the index)
CountLoopDistinct(cur, c, i, count) ==
    Cardinality({t \in Tokens :
                    cur.tokenDetails[t].supported /\ cur.tokenDetails[t].creator = c})

RECURSIVE CountLoop(_, _, _, _)
\* getTokenCreatedBy, lines 131-137: the first pass counts the index entries
\* whose listing has creator c (the index is 1-based here)
CountLoop(cur, c, i, count) ==
    IF i > Len(cur.allSupportedTokens) THEN count
    ELSE CountLoop(cur, c, i + 1,
             IF cur.tokenDetails[cur.allSupportedTokens[i]].creator = c
             THEN count + 1 ELSE count)

RECURSIVE FillLoop(_, _, _, _, _)
\* lines 140-146: the second pass writes the listings into the array tokens
\* at index, which counts from 0; a write past the end of the array panics
FillLoop(cur, c, i, tokens, index) ==
    IF i > Len(cur.allSupportedTokens) THEN [ok |-> TRUE, tokens |-> tokens, index |-> index]
    ELSE IF cur.tokenDetails[cur.allSupportedTokens[i]].creator # c
         THEN FillLoop(cur, c, i + 1, tokens, index)
    ELSE IF index >= Len(tokens) THEN [ok |-> FALSE, tokens |-> tokens, index |-> index]
    ELSE FillLoop(cur, c, i + 1,
             [tokens EXCEPT ![index + 1] = cur.tokenDetails[cur.allSupportedTokens[i]]],
             index + 1)

\* getTokenCreatedBy(_creator) on the ledger cur: new TokenDetails[](count)
\* is an array of count empty listings
TokensCreatedBy(cur, c) ==
    LET count == CountLoop(cur, c, 1, 0)
        r == FillLoop(cur, c, 1, [k \in 1..count |-> NoListing], 0)
    IN  [ok |-> r.ok, tokens |-> r.tokens, count |-> count, filled |-> r.index]

\* ------------------------------------------------------------------ actions
SetLedger(l) ==
    /\ tokenDetails' = l.tokenDetails
    /\ allSupportedTokens' = l.allSupportedTokens
    /\ eth' = l.eth
    /\ tok' = l.tok
    /\ events' = l.events
    /\ deposited' = l.deposited

\* createICOSale(_token, _price); token.name() or token.symbol() may throw
createICOSale(sender, t, price, metaOk) ==
    /\ CanCall(sender)
    /\ Room
    /\ IF metaOk
       THEN /\ SetLedger(Registration(Ledger, sender, t, price))
            /\ last' = Call("createICOSale", t, price, 0, sender, "ok")
       ELSE /\ SetLedger(Ledger)
            /\ last' = Call("createICOSale", t, price, 0, sender, "MetadataFailed")
    /\ pre' = Ledger
    /\ UNCHANGED <<owner, stack>>
    /\ UNCHANGED authVars

\* buyToken up to the external call of line 91: msg.value has come in with the
\* call and is sent on to details.creator, whose payment handler now runs.
BuyBegin(sender, t, amount, value) ==
    /\ CanCall(sender)
    /\ Room
    /\ eth[sender] >= value
    /\ LET d == tokenDetails[t]
           err == BuyCheck(d, amount, value)
       IN  IF err # "pending"
           THEN /\ last' = Call("buyToken", t, amount, value, sender, err)
                /\ UNCHANGED <<eth, stack>>
           ELSE /\ Len(stack) < MaxDepth
                /\ eth' = Forward(Forward(eth, sender, Engine, value),
                                  Engine, d.creator, value)
                /\ stack' = Append(stack,
                      [token |-> t, amount |-> amount, value |-> value,
                       sender |-> sender, creator |-> d.creator, snap |-> Ledger])
                /\ last' = Call("buyToken", t, amount, value, sender, "pending")
    /\ pre' = Ledger
    /\ UNCHANGED <<tokenDetails, allSupportedTokens, owner, tok, events, deposited>>
    /\ UNCHANGED authVars

\* the suspended call f gets as far as its token transfer
TransferReached(f, accept) == accept /\ ScaledAmount(f.amount).ok

\* The payment handler of the creator returns (an externally owned account
\* always accepts) and the suspended buyToken runs to its end.
BuyFinish(accept, mode) ==
    /\ last = Idle
    /\ stack # <<>>
    /\ Top.creator \in EOAs => accept
    /\ TransferReached(Top, accept) \/ mode = "normal"
    /\ LET r == Settle(Top, Ledger, accept, mode)
       IN  /\ SetLedger(r.ledger)
           /\ last' = Call("buyToken", Top.token, Top.amount, Top.value, Top.sender, r.err)
    /\ stack' = SubSeq(stack, 1, Len(stack) - 1)
    /\ pre' = Top.snap
    /\ UNCHANGED owner
    /\ UNCHANGED authVars

widthdrawToken(sender, t, amount, mode) ==
    /\ CanCall(sender)
    /\ Room
    /\ \/ WithdrawCheck(tokenDetails[t], sender, amount, tok[t][Engine]) = "pass"
       \/ mode = "normal"
    /\ LET r == Withdrawal(Ledger, sender, t, amount, mode)
       IN  /\ SetLedger(r.ledger)
           /\ last' = Call("widthdrawToken", t, amount, 0, sender, r.err)
    /\ pre' = Ledger
    /\ UNCHANGED <<owner, stack>>
    /\ UNCHANGED authVars

\* receive(): a plain transfer of native currency to the engine
receive(sender, value) ==
    /\ CanCall(sender)
    /\ Room
    /\ eth[sender] >= value
    /\ LET r == DirectPayment(Ledger, sender, value)
       IN  /\ SetLedger(r.ledger)
           /\ last' = Call("receive", ZeroAddress, 0, value, sender, r.err)
    /\ pre' = Ledger
    /\ UNCHANGED <<owner, stack>>
    /\ UNCHANGED authVars

\* getTokenDetails(_token), lines 124-128: a view, it reads the listing
getTokenDetails(sender, t) ==
    /\ CanCall(sender)
    /\ Room
    /\ last' = Call("getTokenDetails", t, 0, 0, sender,
                    IF tokenDetails[t].supported THEN "ok" ELSE "NotSupported")
    /\ pre' = Ledger
    /\ UNCHANGED <<tokenDetails, allSupportedTokens, owner, eth, tok, events, deposited, stack>>
    /\ UNCHANGED authVars

\* A holder transfers n units of t to the engine, outside the engine's code
\* (token.transfer(engine, n) called on the token by the holder).
Deposit(sender, t, n) ==
    /\ CanCall(sender)
    /\ Room
    /\ tok[t][sender] >= n
    /\ tok' = [tok EXCEPT ![t] = TokenTransfer(tok[t], sender, Engine, n, "normal").bal]
    /\ deposited' = [deposited EXCEPT ![t] = @ + n]
    /\ last' = Call("deposit", t, n, 0, sender, "ok")
    /\ pre' = Ledger
    /\ UNCHANGED <<tokenDetails, allSupportedTokens, owner, eth, events, stack>>
    /\ UNCHANGED authVars

\* The outcome of the latest call has reached its caller: the record of the
\* call is dropped.  The next call, and the return of a payment handler, come
\* after it.
Reported ==
    /\ last # Idle
    /\ last' = Idle
    /\ pre' = Ledger
    /\ UNCHANGED <<tokenDetails, allSupportedTokens, owner, eth, tok, events, deposited, stack>>
    /\ UNCHANGED authVars

\* getTokenCreatedBy(_creator), lines 130-148: a view; the record of the call
\* keeps the creator asked for and the length of the result
getTokenCreatedBy(sender, c) ==
    /\ CanCall(sender)
    /\ Room
    /\ LET r == TokensCreatedBy(Ledger, c)
       IN  last' = Call("getTokenCreatedBy", c, Len(r.tokens), 0, sender,
                        IF r.ok THEN "ok" ELSE "Panic")
    /\ pre' = Ledger
    /\ UNCHANGED <<tokenDetails, allSupportedTokens, owner, eth, tok, events, deposited, stack>>
    /\ UNCHANGED authVars

Next ==
    \/ \E s \in Accounts, t \in Tokens, p \in Prices, ok \in BOOLEAN :
          createICOSale(s, t, p, ok)
    \/ \E s \in Accounts, t \in Tokens, a \in BuyAmounts, v \in Values :
          BuyBegin(s, t, a, v)
    \/ \E accept \in BOOLEAN, mode \in TransferModes : BuyFinish(accept, mode)
    \/ \E s \in Accounts, t \in Tokens, a \in WithdrawAmounts, mode \in TransferModes :
          widthdrawToken(s, t, a, mode)
    \/ \E s \in Accounts, v \in Values : receive(s, v)
    \/ \E s \in Accounts, t \in Tokens : getTokenDetails(s, t)
    \/ \E s \in Accounts, c \in Accounts : getTokenCreatedBy(s, c)
    \/ \E s \in Accounts, t \in Tokens, n \in Deposits : Deposit(s, t, n)
    \/ Reported

Spec == Init /\ [][Next]_vars

\* ----------------------------------------------------- AuthProvider, actions
\* checkAdminStatus(user) up to its first await, lines 76-100: a cached status
\* is taken over at once, otherwise the database is asked and the call waits
CheckAdminStatus(u) ==
    IF adminCache[u] # NoEntry
    THEN /\ isAdmin' = adminCache[u].isAdmin
         /\ adminRole' = adminCache[u].adminRole
         /\ UNCHANGED pendingChecks
    ELSE /\ pendingChecks[u] < MaxPending
         /\ pendingChecks' = [pendingChecks EXCEPT ![u] = @ + 1]
         /\ UNCHANGED <<isAdmin, adminRole>>

\* supabase.auth.getSession() resolves with the session s, lines 41-48
SessionResolved(s) ==
    /\ sessionPending
    /\ sessionPending' = FALSE
    /\ session' = s
    /\ user' = s
    /\ IF s # NoUser THEN CheckAdminStatus(s)
       ELSE UNCHANGED <<isAdmin, adminRole, pendingChecks>>
    /\ loading' = FALSE
    /\ UNCHANGED <<adminCache, pendingProfiles, signOutPending>>
    /\ UNCHANGED engineVars

\* the onAuthStateChange callback up to its first await, lines 52-70; SIGNED_OUT
\* comes without a session, every other event with one
AuthStateChange(event, s) ==
    /\ (event = "SIGNED_OUT") <=> (s = NoUser)
    /\ session' = s
    /\ user' = s
    /\ IF s # NoUser
       THEN /\ CheckAdminStatus(s)
            /\ IF event \in {"SIGNED_UP", "SIGNED_IN"}
               THEN /\ pendingProfiles < MaxPending
                    /\ pendingProfiles' = pendingProfiles + 1
                    /\ UNCHANGED loading
               ELSE /\ loading' = FALSE
                    /\ UNCHANGED pendingProfiles
       ELSE /\ isAdmin' = FALSE
            /\ adminRole' = NoRole
            /\ loading' = FALSE
            /\ UNCHANGED <<pendingChecks, pendingProfiles>>
    /\ UNCHANGED <<adminCache, sessionPending, signOutPending>>
    /\ UNCHANGED engineVars

\* createUserProfile / ensureUserProfile has returned, line 69
ProfileDone ==
    /\ pendingProfiles > 0
    /\ pendingProfiles' = pendingProfiles - 1
    /\ loading' = FALSE
    /\ UNCHANGED <<user, session, isAdmin, adminRole, adminCache, sessionPending,
                   pendingChecks, signOutPending>>
    /\ UNCHANGED engineVars

\* checkAdminStatus(u) from the end of its await, lines 100-116: the database
\* answered, with the active row of u or with none, or the race was lost to
\* the timeout or threw; without a row the hardcoded check decides
CheckResolved(u, answered) ==
    /\ pendingChecks[u] > 0
    /\ pendingChecks' = [pendingChecks EXCEPT ![u] = @ - 1]
    /\ IF answered /\ DbRole(u) # NoRole
       THEN /\ isAdmin' = TRUE
            /\ adminRole' = DbRole(u)
            /\ adminCache' = [adminCache EXCEPT ![u] =
                                 [isAdmin |-> TRUE, adminRole |-> DbRole(u)]]
       ELSE LET isUserAdmin == u = ADMIN_USER_ID
                role == IF isUserAdmin THEN "super_admin" ELSE NoRole
            IN  /\ isAdmin' = isUserAdmin
                /\ adminRole' = role
                /\ adminCache' = [adminCache EXCEPT ![u] =
                                     [isAdmin |-> isUserAdmin, adminRole |-> role]]
    /\ UNCHANGED <<user, session, loading, sessionPending, pendingProfiles, signOutPending>>
    /\ UNCHANGED engineVars

\* signOut() up to its await, lines 198-200
SignOutCall ==
    /\ ~signOutPending
    /\ signOutPending' = TRUE
    /\ UNCHANGED <<user, session, loading, isAdmin, adminRole, adminCache, sessionPending,
                   pendingChecks, pendingProfiles>>
    /\ UNCHANGED engineVars

\* signOut() after supabase.auth.signOut() has resolved, lines 200-207
SignOutReturn(ok) ==
    /\ signOutPending
    /\ signOutPending' = FALSE
    /\ IF ok THEN isAdmin' = FALSE /\ adminRole' = NoRole
       ELSE UNCHANGED <<isAdmin, adminRole>>
    /\ UNCHANGED <<user, session, loading, adminCache, sessionPending,
                   pendingChecks, pendingProfiles>>
    /\ UNCHANGED engineVars

\* an entry of the cache of lib/supabase is no longer returned by getCachedData
CacheExpired(u) ==
    /\ adminCache[u] # NoEntry
    /\ adminCache' = [adminCache EXCEPT ![u] = NoEntry]
    /\ UNCHANGED <<user, session, loading, isAdmin, adminRole, sessionPending,
                   pendingChecks, pendingProfiles, signOutPending>>
    /\ UNCHANGED engineVars

AuthNext ==
    \/ \E s \in Users \cup {NoUser} : SessionResolved(s)
    \/ \E event \in AuthEvents, s \in Users \cup {NoUser} : AuthStateChange(event, s)
    \/ ProfileDone
    \/ \E u \in Users, answered \in BOOLEAN : CheckResolved(u, answered)
    \/ SignOutCall
    \/ \E ok \in BOOLEAN : SignOutReturn(ok)
    \/ \E u \in Users : CacheExpired(u)

AuthSpec == Init /\ [][AuthNext]_vars

\* ------------------------------------------------------------------ claims
\* The call of the latest step: its token's listing and creator when it began.
Listed == pre.tokenDetails[last.token]
Creator == pre.tokenDetails[last.token].creator

\* the latest call is a buyToken of a supported token with amount > 0 paying
\* exactly price * amount
ExactBuy ==
    /\ last.op = "buyToken"
    /\ Listed.supported
    /\ last.arg > 0
    /\ last.value = Listed.price * last.arg

\* the event a successful buyToken emits
BuyEvent ==
    [type |-> "TokenTransferred", token |-> last.token, to |-> last.sender,
     amount |-> last.arg]

\* no operation nested in the latest call has left a trace on the ledger
NothingNested ==
    /\ events = Append(pre.events, BuyEvent)
    /\ deposited = pre.deposited

RECURSIVE PaidOutOf(_, _)
\* units of t the events of evs say were released: amount * 10**18 for each
\* purchase, amount for each withdrawal
PaidOutOf(evs, t) ==
    IF evs = <<>> THEN 0
    ELSE LET e == Head(evs)
         IN  (IF e.token # t THEN 0
              ELSE IF e.type = "TokenTransferred" THEN e.amount * UNIT
              ELSE IF e.type = "TokenWidthdraw" THEN e.amount
              ELSE 0) + PaidOutOf(Tail(evs), t)

PaidOut(t) == PaidOutOf(events, t)

Count(seq, t) == Cardinality({i \in DOMAIN seq : seq[i] = t})

\* the places of the registrations of t in the event log
Registrations(t) ==
    {i \in DOMAIN events : events[i].type = "TokenAdded" /\ events[i].token = t}

LatestRegistration(t) ==
    events[CHOOSE i \in Registrations(t) : \A j \in Registrations(t) : j <= i]

\* C1 as stated: every buyToken of a supported token with amount > 0 and exact
\* payment succeeds, the creator's native balance grows by the payment and the
\* buyer's token balance by amount * 10**18.
C1_ExactBuySucceeds ==
    (ExactBuy /\ last.err # "pending") =>
        /\ last.err = "ok"
        /\ eth[Creator] = pre.eth[Creator] + last.value
        /\ tok[last.token][last.sender] = pre.tok[last.token][last.sender] + last.arg * UNIT

\* C1 amended: such a buyToken passes the support, amount, overflow and payment
\* checks and forwards the payment to the creator; it then ends in success or
\* in a failed payment forwarding, a failed scaling or a failed token transfer,
\* and a failure reverts it.  When it succeeds amount * 10**18 fits the word, a
\* buyer other than the creator holds amount * 10**18 more of the token than
\* before the call, and the creator, when nothing ran nested in the call, has
\* the payment more.
C1_ExactBuy ==
    ExactBuy =>
        /\ last.err \in {"pending", "ok", "PaymentForwardingFailed", "Panic", "TransferFailed"}
        /\ last.err = "pending" =>
              eth = Forward(pre.eth, last.sender, Creator, last.value)
        /\ last.err \notin {"pending", "ok"} => Ledger = pre
        /\ last.err = "ok" => last.arg * UNIT < Modulus
        /\ (last.err = "ok" /\ last.sender # Creator) =>
              tok[last.token][last.sender] =
                  pre.tok[last.token][last.sender] + last.arg * UNIT
        /\ (last.err = "ok" /\ last.sender # Creator /\ NothingNested) =>
              eth[Creator] = pre.eth[Creator] + last.value

C1_Witness ==
    /\ ExactBuy
    /\ last.err = "ok"
    /\ last.value > 0
    /\ last.sender # Creator
    /\ eth[Creator] = pre.eth[Creator] + last.value
    /\ tok[last.token][last.sender] = pre.tok[last.token][last.sender] + UNIT

\* C2: a buyToken that fails, at any point, leaves the ledger it found: the
\* registry, the index, every native and token balance and the event log; one
\* that succeeds with nothing nested in it has moved both the payment and the
\* tokens and nothing else.
C2_AllOrNothing ==
    /\ (last.op = "buyToken" /\ last.err \notin {"pending", "ok"}) => Ledger = pre
    /\ (last.op = "buyToken" /\ last.err = "ok" /\ NothingNested) =>
          /\ eth = Forward(pre.eth, last.sender, Creator, last.value)
          /\ tok = [pre.tok EXCEPT ![last.token] =
                       [@ EXCEPT ![Engine] = @ - last.arg * UNIT,
                                 ![last.sender] = @ + last.arg * UNIT]]
          /\ tokenDetails = pre.tokenDetails
          /\ allSupportedTokens = pre.allSupportedTokens

\* the token transfer failed after a payment of more than nothing was forwarded
C2_Witness ==
    /\ last.op = "buyToken"
    /\ last.err = "TransferFailed"
    /\ last.value > 0
    /\ last.sender # Creator
    /\ Ledger = pre

C4_CreatorOnly ==
    (last.op = "widthdrawToken" /\ last.sender # Creator) =>
        (last.err = "Unauthorized" /\ Ledger = pre)

\* the deployer asks for units the engine holds of a token another party listed
C4_Witness ==
    /\ last.op = "widthdrawToken"
    /\ last.sender = owner
    /\ Listed.supported
    /\ Creator # owner
    /\ last.arg > 0
    /\ pre.tok[last.token][Engine] >= last.arg
    /\ last.err = "Unauthorized"

\* C5 as stated: once a listing exists no later operation changes its price or
\* its creator.
C5_NeverChanged ==
    \A t \in Tokens :
        pre.tokenDetails[t].supported =>
            /\ tokenDetails[t].price = pre.tokenDetails[t].price
            /\ tokenDetails[t].creator = pre.tokenDetails[t].creator

\* C5 amended: the price and the creator of a listing are those of the latest
\* registration of its identifier; a call in which no registration was made
\* leaves every listing as it was.
C5_SetByLatestRegistration ==
    /\ \A t \in Tokens :
          tokenDetails[t] =
              IF Registrations(t) = {} THEN NoListing
              ELSE LET e == LatestRegistration(t)
                   IN  [token |-> t, supported |-> TRUE, price |-> e.price,
                        creator |-> e.creator, name |-> e.name, symbol |-> e.symbol]
    /\ (\A i \in DOMAIN events :
            i > Len(pre.events) => events[i].type # "TokenAdded")
          => tokenDetails = pre.tokenDetails

\* a token registered twice, by two parties at two prices, and then withdrawn
C5_Witness ==
    /\ last.op = "widthdrawToken"
    /\ last.err = "ok"
    /\ \E i, j \in Registrations(last.token) :
          /\ i < j
          /\ events[i].creator # events[j].creator
          /\ events[i].price # events[j].price
          /\ tokenDetails[last.token].creator = events[j].creator
          /\ tokenDetails[last.token].price = events[j].price

\* C6: a buyToken of a supported token with amount > 0 and a cost that fits the
\* word, paying anything but price * amount, fails with IncorrectPayment and
\* changes nothing.
C6_IncorrectPayment ==
    ( /\ last.op = "buyToken"
      /\ Listed.supported
      /\ last.arg > 0
      /\ Listed.price * last.arg < Modulus
      /\ last.value # Listed.price * last.arg ) =>
        (last.err = "IncorrectPayment" /\ Ledger = pre)

\* more than the cost was paid for a token that has a price
C6_Witness ==
    /\ last.op = "buyToken"
    /\ Listed.supported
    /\ last.arg > 0
    /\ Listed.price > 0
    /\ last.value > Listed.price * last.arg
    /\ last.err = "IncorrectPayment"

\* C7: a buyToken of a supported token with amount > 0 whose cost
\* price * amount leaves the word fails with ArithmeticOverflow whatever is
\* paid, the wrapped product included, and changes nothing.
C7_Overflow ==
    ( /\ last.op = "buyToken"
      /\ Listed.supported
      /\ last.arg > 0
      /\ Listed.price * last.arg >= Modulus ) =>
        (last.err = "ArithmeticOverflow" /\ Ledger = pre)

\* the wrapped product was paid
C7_Witness ==
    /\ last.op = "buyToken"
    /\ Listed.supported
    /\ last.arg > 0
    /\ Listed.price * last.arg >= Modulus
    /\ last.value = (Listed.price * last.arg) % Modulus
    /\ last.err = "ArithmeticOverflow"

\* C8: after a createICOSale(t, p) by c that completes, t is supported, its
\* listing holds p, c and t, and t is the last element of the index, which is
\* the index of before with t appended.
C8_Registered ==
    (last.op = "createICOSale" /\ last.err = "ok") =>
        /\ tokenDetails[last.token].supported
        /\ tokenDetails[last.token].price = last.arg
        /\ tokenDetails[last.token].creator = last.sender
        /\ tokenDetails[last.token].token = last.token
        /\ allSupportedTokens = Append(pre.allSupportedTokens, last.token)
        /\ allSupportedTokens[Len(allSupportedTokens)] = last.token

\* a registration made when the index already held another identifier
C8_Witness ==
    /\ last.op = "createICOSale"
    /\ last.err = "ok"
    /\ pre.allSupportedTokens # <<>>
    /\ pre.allSupportedTokens[1] # last.token
    /\ last.arg > 0

\* C9: a createICOSale of an identifier that is already listed, by any caller,
\* succeeds when the token's metadata can be read, writes the new price and
\* the new creator over the old ones and makes the index one longer, with one
\* more occurrence of the identifier; the index holds every identifier as many
\* times as it was registered, and the registry one listing for it.
C9_Reregistration ==
    /\ (last.op = "createICOSale" /\ Listed.supported) =>
          /\ last.err \in {"ok", "MetadataFailed"}
          /\ last.err = "ok" =>
                /\ tokenDetails[last.token].price = last.arg
                /\ tokenDetails[last.token].creator = last.sender
                /\ Len(allSupportedTokens) = Len(pre.allSupportedTokens) + 1
                /\ Count(allSupportedTokens, last.token) =
                      Count(pre.allSupportedTokens, last.token) + 1
    /\ \A t \in Tokens :
          Count(allSupportedTokens, t) = Cardinality(Registrations(t))
    /\ DOMAIN tokenDetails = Tokens

\* a listing taken over by another caller at another price
C9_Witness ==
    /\ last.op = "createICOSale"
    /\ last.err = "ok"
    /\ Listed.supported
    /\ Listed.creator # last.sender
    /\ Listed.price # last.arg
    /\ Count(allSupportedTokens, last.token) = 2

\* C10 as stated: while a buyToken is running, between the payment to the
\* creator and the transfer to the buyer, no createICOSale, buyToken or
\* widthdrawToken is carried out on the engine.
C10_NoInterleaving ==
    stack # <<>> =>
        ~ ( /\ last.op \in {"createICOSale", "buyToken", "widthdrawToken"}
            /\ last.err = "ok" )

\* C11: in every state and for every token identifier, the listing of the
\* identifier is marked supported exactly when the identifier occurs in the
\* index, during a suspended buyToken and after a reverted one too.
C11_IndexedIffSupported ==
    \A t \in Tokens :
        tokenDetails[t].supported <=> (\E i \in DOMAIN allSupportedTokens : allSupportedTokens[i] = t)

\* after a buyToken that failed and was reverted, one identifier is listed and
\* indexed twice, the other is neither listed nor indexed
C11_Witness ==
    /\ last.op = "buyToken"
    /\ last.err = "TransferFailed"
    /\ stack = <<>>
    /\ allSupportedTokens = <<last.token, last.token>>
    /\ \E t \in Tokens : ~tokenDetails[t].supported

\* No call is being reported.  Every call is followed by such a state with the
\* ledger and the call stack the call left, so what holds of the ledger in
\* these states holds of it after every call.
BetweenCalls == last = Idle

\* what the engine held of the token of the latest call when the call began
Held == pre.tok[last.token][Engine]

\* the latest call is a widthdrawToken made by the creator of a listed token
CreatorWithdraw ==
    /\ last.op = "widthdrawToken"
    /\ Listed.supported
    /\ last.sender = Creator

\* C12: a widthdrawToken by the creator asking for more than the engine holds
\* of the token fails with InsufficientBalance and changes nothing; one asking
\* for exactly what the engine holds is not rejected for its balance.
C12_InsufficientBalance ==
    /\ (CreatorWithdraw /\ last.arg > Held) =>
          (last.err = "InsufficientBalance" /\ Ledger = pre)
    /\ (CreatorWithdraw /\ last.arg > 0 /\ last.arg = Held) =>
          last.err \in {"ok", "TransferFailed"}
    /\ BetweenCalls => \A t \in Tokens, a \in WithdrawAmounts :
          LET d == tokenDetails[t]
          IN  /\ a > tok[t][Engine] =>
                    WithdrawCheck(d, d.creator, a, tok[t][Engine])
                        \in {"NotSupported", "InsufficientBalance"}
              /\ (a > 0 /\ a = tok[t][Engine]) =>
                    WithdrawCheck(d, d.creator, a, tok[t][Engine])
                        \in {"NotSupported", "pass"}

\* the engine holds some of the token, less than the creator asks for
C12_Witness ==
    /\ CreatorWithdraw
    /\ Held > 0
    /\ last.arg > Held
    /\ last.err = "InsufficientBalance"
    /\ tok = pre.tok

\* C13: a buyToken of an identifier that has no listing, never registered or
\* registered only inside a call that was reverted, fails with NotSupported
\* whatever the amount and the payment, and moves no currency and no tokens.
C13_NotSupported ==
    /\ (last.op = "buyToken" /\ ~Listed.supported) =>
          /\ last.err = "NotSupported"
          /\ Ledger = pre
    /\ BetweenCalls => \A t \in Tokens, a \in BuyAmounts, v \in Values :
          Registrations(t) = {} => BuyCheck(tokenDetails[t], a, v) = "NotSupported"

\* amount 0 and a payment sent along, while another identifier is listed
C13_Witness ==
    /\ last.op = "buyToken"
    /\ ~Listed.supported
    /\ last.arg = 0
    /\ last.value > 0
    /\ allSupportedTokens # <<>>
    /\ last.err = "NotSupported"
    /\ eth = pre.eth

\* C14: a plain transfer of native currency to the engine fails with
\* DirectPaymentRejected for every sender and every value, zero included, in
\* every state, also from the payment handler of a creator while a buyToken is
\* suspended; the ledger and every balance are as before.
C14_DirectPaymentRejected ==
    /\ last.op = "receive" => (last.err = "DirectPaymentRejected" /\ Ledger = pre)
    /\ BetweenCalls => \A s \in Accounts, v \in Values :
          DirectPayment(Ledger, s, v) = [err |-> "DirectPaymentRejected", ledger |-> Ledger]

\* a creator sends currency to the engine from its payment handler
C14_Witness ==
    /\ last.op = "receive"
    /\ last.value > 0
    /\ stack # <<>>
    /\ last.sender = Top.creator
    /\ last.err = "DirectPaymentRejected"
    /\ eth[Engine] = pre.eth[Engine]

IsPrefix(a, b) == Len(a) <= Len(b) /\ SubSeq(b, 1, Len(a)) = a

\* the events a successful createICOSale and a successful widthdrawToken emit
AddEvent ==
    [type |-> "TokenAdded", token |-> last.token, price |-> last.arg,
     creator |-> last.sender, name |-> NameOf(last.token), symbol |-> SymbolOf(last.token)]
WithdrawEvent ==
    [type |-> "TokenWidthdraw", token |-> last.token, to |-> last.sender,
     amount |-> last.arg]

\* C15: the log a call leaves begins with the log it found.  A createICOSale
\* that succeeds has appended one TokenAdded with the identifier, the price,
\* the caller, the name and the symbol; a widthdrawToken that succeeds one
\* TokenWidthdraw with the identifier, the caller and the amount; a buyToken
\* that succeeds has as its last event one TokenTransferred with the
\* identifier, the buyer and the unscaled amount, after the events of the
\* calls that succeeded inside it.  A call that fails, a direct payment, a
\* read and a deposit leave the log as it was.
C15_EventLog ==
    /\ IsPrefix(pre.events, events)
    /\ (last.op = "createICOSale" /\ last.err = "ok") =>
          events = Append(pre.events, AddEvent)
    /\ (last.op = "widthdrawToken" /\ last.err = "ok") =>
          events = Append(pre.events, WithdrawEvent)
    /\ (last.op = "buyToken" /\ last.err = "ok") =>
          /\ Len(events) > Len(pre.events)
          /\ events[Len(events)] = BuyEvent
          /\ \A i \in DOMAIN events :
                (Len(pre.events) < i /\ i < Len(events)) =>
                    events[i].type \in {"TokenAdded", "TokenTransferred", "TokenWidthdraw"}
    /\ last.err # "ok" => events = pre.events
    /\ last.op \in {"receive", "getTokenDetails", "deposit"} => events = pre.events
    /\ Len(events) <= MaxEvents

\* a registration, a purchase and a withdrawal, one event each
C15_Witness ==
    /\ last.op = "widthdrawToken"
    /\ last.err = "ok"
    /\ Len(events) = 3
    /\ events[1].type = "TokenAdded"
    /\ events[2] = [type |-> "TokenTransferred", token |-> last.token, to |-> "o", amount |-> 1]
    /\ events[3] = WithdrawEvent

RegistryUnchanged ==
    /\ tokenDetails = pre.tokenDetails
    /\ allSupportedTokens = pre.allSupportedTokens

\* no createICOSale has succeeded since the latest call began
NoRegistrationSince ==
    \A i \in DOMAIN events : i > Len(pre.events) => events[i].type # "TokenAdded"

\* C16: every widthdrawToken, direct payment and read, and every buyToken that
\* fails, leaves each listing (supported, price, creator, name, symbol) and
\* the index as they were; so does a buyToken that succeeds, but for what the
\* createICOSale calls made inside it have written.  Whenever a call has
\* changed the registry a createICOSale has succeeded in it.
C16_OnlyRegisterWrites ==
    /\ last.op \in {"widthdrawToken", "receive", "getTokenDetails", "deposit"} =>
          RegistryUnchanged
    /\ (last.op = "buyToken" /\ last.err # "ok") => RegistryUnchanged
    /\ (last.op = "buyToken" /\ last.err = "ok" /\ NoRegistrationSince) =>
          RegistryUnchanged
    /\ ~RegistryUnchanged => ~NoRegistrationSince

\* a purchase that succeeded with two identifiers in the registry
C16_Witness ==
    /\ last.op = "buyToken"
    /\ last.err = "ok"
    /\ Len(pre.allSupportedTokens) = 2
    /\ pre.allSupportedTokens[1] # pre.allSupportedTokens[2]
    /\ RegistryUnchanged

\* C17: whatever call is made, an identifier supported when the call began is
\* supported when it has ended, its listing is not the empty one, and the
\* index the call leaves begins with the index it found; an identifier is
\* supported exactly when a registration of it is in the log.
C17_SupportedStays ==
    /\ \A t \in Tokens :
          pre.tokenDetails[t].supported =>
              (tokenDetails[t].supported /\ tokenDetails[t] # NoListing)
    /\ IsPrefix(pre.allSupportedTokens, allSupportedTokens)
    /\ \A t \in Tokens : tokenDetails[t].supported <=> Registrations(t) # {}

\* a purchase during which the creator registered one more identifier, and
\* both are supported after it
C17_Witness ==
    /\ last.op = "buyToken"
    /\ last.err = "ok"
    /\ stack = <<>>
    /\ Len(allSupportedTokens) > Len(pre.allSupportedTokens)
    /\ \A t \in Tokens : tokenDetails[t].supported

\* C18: a widthdrawToken by the creator of a listed token with
\* 0 < amount <= the engine's balance ends in success or, when the token
\* refuses the transfer, in TransferFailed with nothing changed; with a token
\* that accepts it succeeds.  When it succeeds exactly amount units, unscaled,
\* have left the engine and reached the caller, and no native currency and no
\* other token balance has moved.
C18_WithdrawRaw ==
    /\ (CreatorWithdraw /\ 0 < last.arg /\ last.arg <= Held) =>
          last.err \in {"ok", "TransferFailed"}
    /\ (last.op = "widthdrawToken" /\ last.err = "TransferFailed") => Ledger = pre
    /\ (last.op = "widthdrawToken" /\ last.err = "ok") =>
          /\ CreatorWithdraw /\ 0 < last.arg /\ last.arg <= Held
          /\ tok = [pre.tok EXCEPT ![last.token] =
                       [@ EXCEPT ![Engine] = @ - last.arg, ![last.sender] = @ + last.arg]]
          /\ eth = pre.eth
    /\ BetweenCalls => \A t \in Tokens, a \in WithdrawAmounts :
          LET c == tokenDetails[t].creator
          IN  WithdrawCheck(tokenDetails[t], c, a, tok[t][Engine]) = "pass" =>
                  Withdrawal(Ledger, c, t, a, "normal").err = "ok"

\* the creator takes out all the engine holds, more than one unit
C18_Witness ==
    /\ CreatorWithdraw
    /\ last.err = "ok"
    /\ last.arg > 1
    /\ last.arg = Held
    /\ tok[last.token][Engine] = 0
    /\ tok[last.token][last.sender] = pre.tok[last.token][last.sender] + last.arg

\* C19: in widthdrawToken and in buyToken a token transfer that returns false
\* ends the call as one that throws does: TransferFailed, the ledger of before
\* the call (in buyToken the forwarded payment is back with the buyer) and no
\* event.
C19_FalseAsThrow ==
    /\ BetweenCalls => \A s \in Accounts, t \in Tokens, a \in WithdrawAmounts :
          /\ Withdrawal(Ledger, s, t, a, "returnsFalse") = Withdrawal(Ledger, s, t, a, "throws")
          /\ WithdrawCheck(tokenDetails[t], s, a, tok[t][Engine]) = "pass" =>
                Withdrawal(Ledger, s, t, a, "returnsFalse") =
                    [err |-> "TransferFailed", ledger |-> Ledger]
    /\ (BetweenCalls /\ stack # <<>>) =>
          /\ Settle(Top, Ledger, TRUE, "returnsFalse") = Settle(Top, Ledger, TRUE, "throws")
          /\ ScaledAmount(Top.amount).ok =>
                Settle(Top, Ledger, TRUE, "returnsFalse") =
                    [err |-> "TransferFailed", ledger |-> Top.snap]
    /\ (last.op \in {"buyToken", "widthdrawToken"} /\ last.err = "TransferFailed") =>
          /\ Ledger = pre
          /\ eth = pre.eth
          /\ events = pre.events

\* the engine held what was bought, the payment was forwarded and the token
\* refused the transfer
C19_Witness ==
    /\ last.op = "buyToken"
    /\ last.err = "TransferFailed"
    /\ stack = <<>>
    /\ last.value > 0
    /\ last.sender # Creator
    /\ Held >= last.arg * UNIT
    /\ eth[last.sender] = pre.eth[last.sender]
    /\ events = pre.events

\* the latest call is a buyToken with amount > 0 of a token listed at price 0
ZeroPriceBuy ==
    /\ last.op = "buyToken"
    /\ Listed.supported
    /\ Listed.price = 0
    /\ last.arg > 0

\* C20 as stated: every buyToken with amount > 0 and no payment of a token
\* listed at price 0 delivers amount * 10**18 tokens to the buyer, and one
\* with a payment fails with IncorrectPayment.
C20_ZeroPriceDelivers ==
    /\ (ZeroPriceBuy /\ last.value = 0 /\ last.err # "pending") =>
          /\ last.err = "ok"
          /\ tok[last.token][last.sender] = pre.tok[last.token][last.sender] + last.arg * UNIT
    /\ (ZeroPriceBuy /\ last.value > 0) => last.err = "IncorrectPayment"

\* C20 amended: createICOSale takes price 0 as any other price.  A buyToken
\* with amount > 0 and no payment of a token listed at 0 passes the cost and
\* payment checks and calls the creator with value 0; it then succeeds or
\* fails in the payment call, the scaling or the token transfer, as at any
\* price.  When it succeeds a buyer other than the creator holds
\* amount * 10**18 more of the token, and no currency has moved when nothing
\* ran nested in it.  With any payment it fails with IncorrectPayment and
\* changes nothing.
C20_ZeroPrice ==
    /\ (last.op = "createICOSale" /\ last.arg = 0) =>
          /\ last.err \in {"ok", "MetadataFailed"}
          /\ last.err = "ok" =>
                (tokenDetails[last.token].supported /\ tokenDetails[last.token].price = 0)
    /\ (ZeroPriceBuy /\ last.value = 0) =>
          /\ last.err \in {"pending", "ok", "PaymentForwardingFailed", "Panic", "TransferFailed"}
          /\ last.err = "pending" => (eth = pre.eth /\ Top.creator = Creator /\ Top.value = 0)
          /\ last.err \notin {"pending", "ok"} => Ledger = pre
          /\ last.err = "ok" => last.arg * UNIT < Modulus
          /\ (last.err = "ok" /\ last.sender # Creator) =>
                tok[last.token][last.sender] =
                    pre.tok[last.token][last.sender] + last.arg * UNIT
          /\ (last.err = "ok" /\ NothingNested) => eth = pre.eth
    /\ (ZeroPriceBuy /\ last.value > 0) =>
          (last.err = "IncorrectPayment" /\ Ledger = pre)

\* a whole token handed over for nothing
C20_Witness ==
    /\ ZeroPriceBuy
    /\ last.value = 0
    /\ last.err = "ok"
    /\ last.sender # Creator
    /\ tok[last.token][last.sender] = pre.tok[last.token][last.sender] + UNIT
    /\ eth = pre.eth

\* C21: buyToken reports the first check that fails, in the order
\* NotSupported, InvalidAmount, ArithmeticOverflow, IncorrectPayment,
\* PaymentForwardingFailed, TransferFailed: an unlisted token gives
\* NotSupported whatever the amount, amount 0 of a listed token InvalidAmount
\* whatever is paid, an overflowing cost ArithmeticOverflow whatever is paid;
\* a refused payment is reported whatever the token would do, and the token
\* transfer is tried only in a call that passed the four checks and forwarded
\* the payment.
C21_BuyCheckOrder ==
    /\ last.op = "buyToken" =>
          /\ ~Listed.supported => last.err = "NotSupported"
          /\ (Listed.supported /\ last.arg = 0) => last.err = "InvalidAmount"
          /\ (Listed.supported /\ last.arg > 0 /\ Listed.price * last.arg >= Modulus) =>
                last.err = "ArithmeticOverflow"
          /\ (Listed.supported /\ last.arg > 0 /\ Listed.price * last.arg < Modulus
                /\ last.value # Listed.price * last.arg) => last.err = "IncorrectPayment"
          /\ last.err \in {"pending", "PaymentForwardingFailed", "Panic", "TransferFailed", "ok"}
                => ExactBuy
    /\ BetweenCalls => \A t \in Tokens, a \in BuyAmounts, v \in Values :
          BuyCheck(tokenDetails[t], a, v) \notin {"PaymentForwardingFailed", "TransferFailed"}
    /\ (BetweenCalls /\ stack # <<>>) =>
          \A mode \in TransferModes :
              /\ Settle(Top, Ledger, FALSE, mode).err = "PaymentForwardingFailed"
              /\ Settle(Top, Ledger, TRUE, mode).err = "TransferFailed" =>
                    /\ BuyCheck(Top.snap.tokenDetails[Top.token], Top.amount, Top.value) = "pending"
                    /\ Top.snap.eth[Top.sender] >= Top.value

\* no tokens of a listed token were asked for and something was paid
C21_Witness ==
    /\ last.op = "buyToken"
    /\ Listed.supported
    /\ Listed.price > 0
    /\ last.arg = 0
    /\ last.value > 0
    /\ last.err = "InvalidAmount"

\* C22: widthdrawToken reports the first check that fails, in the order
\* Unauthorized, NotSupported, InvalidAmount, InsufficientBalance,
\* TransferFailed.  The caller is compared with the stored creator first, so
\* on an identifier without a listing every caller gets Unauthorized, and a
\* caller who is not the creator gets Unauthorized whatever the amount; the
\* creator asking for 0 gets InvalidAmount whatever the engine holds, and the
\* token is asked to transfer only when all four checks have passed.
C22_WithdrawCheckOrder ==
    /\ last.op = "widthdrawToken" =>
          /\ last.sender # Creator => last.err = "Unauthorized"
          /\ ~Listed.supported => last.err = "Unauthorized"
          /\ (last.sender = Creator /\ last.arg = 0) => last.err = "InvalidAmount"
          /\ (last.sender = Creator /\ last.arg > Held) => last.err = "InsufficientBalance"
          /\ last.err \in {"TransferFailed", "ok"} =>
                (CreatorWithdraw /\ 0 < last.arg /\ last.arg <= Held)
          /\ last.err # "NotSupported"
    /\ BetweenCalls =>
        \A t \in Tokens, s \in Accounts, a \in WithdrawAmounts, mode \in TransferModes :
          LET c == WithdrawCheck(tokenDetails[t], s, a, tok[t][Engine])
          IN  /\ c # "pass" => Withdrawal(Ledger, s, t, a, mode).err = c
              /\ ~tokenDetails[t].supported => c = "Unauthorized"
    /\ \A a \in WithdrawAmounts :
          WithdrawCheck(NoListing, NoListing.creator, a, 0) = "NotSupported"

\* nothing is asked of an identifier that has no listing
C22_Witness ==
    /\ last.op = "widthdrawToken"
    /\ ~Listed.supported
    /\ last.arg = 0
    /\ allSupportedTokens # <<>>
    /\ last.err = "Unauthorized"

\* the latest call is a buyToken that passed the support, amount, cost and
\* payment checks and whose scaled amount leaves the word
ScaledOverflowBuy ==
    /\ ExactBuy
    /\ last.arg * UNIT >= Modulus

\* C23 as stated: such a buyToken does not fail with an arithmetic error; it
\* goes on to transfer the wrapped amount (amount * 10**18) mod 2^w to the
\* buyer.
C23_ScaledWraps ==
    (ScaledOverflowBuy /\ last.err \notin {"pending", "PaymentForwardingFailed"}) =>
        /\ last.err # "Panic"
        /\ (last.err = "ok" /\ last.sender # Creator) =>
              tok[last.token][last.sender] =
                  pre.tok[last.token][last.sender] + ((last.arg * UNIT) % Modulus)

\* C23 amended: multiply guards the cost price * amount only, but the scaled
\* amount amount * 10**18 is computed in the checked arithmetic of the
\* compiler: a buyToken that passed the four checks and whose scaled amount
\* leaves the word fails with an arithmetic panic once the creator has taken
\* the payment, before any token transfer, and is reverted, the payment
\* included; no buyToken that succeeds has a scaled amount outside the word.
C23_ScaledChecked ==
    /\ ScaledOverflowBuy =>
          /\ last.err \in {"pending", "PaymentForwardingFailed", "Panic"}
          /\ last.err # "pending" => Ledger = pre
    /\ (last.op = "buyToken" /\ last.err = "ok") => last.arg * UNIT < Modulus
    /\ (last.op = "buyToken" /\ last.err = "Panic") => ScaledOverflowBuy
    /\ (BetweenCalls /\ stack # <<>> /\ Top.amount * UNIT >= Modulus) =>
          \A mode \in TransferModes :
              Settle(Top, Ledger, TRUE, mode) = [err |-> "Panic", ledger |-> Top.snap]

\* the cost fitted the word, the scaled amount did not and would have wrapped
\* to more than nothing
C23_Witness ==
    /\ ScaledOverflowBuy
    /\ Listed.price * last.arg < Modulus
    /\ (last.arg * UNIT) % Modulus > 0
    /\ pre.tok[last.token][Engine] >= (last.arg * UNIT) % Modulus
    /\ last.err = "Panic"
    /\ tok = pre.tok

RECURSIVE FilterLoop(_, _, _, _)
\* one pass over the index that appends every listing whose creator is c
FilterLoop(cur, c, i, acc) ==
    IF i > Len(cur.allSupportedTokens) THEN acc
    ELSE FilterLoop(cur, c, i + 1,
             IF cur.tokenDetails[cur.allSupportedTokens[i]].creator = c
             THEN Append(acc, cur.tokenDetails[cur.allSupportedTokens[i]])
             ELSE acc)

\* the places of the index whose listing has creator c now
PlacesOf(c) ==
    {i \in DOMAIN allSupportedTokens : tokenDetails[allSupportedTokens[i]].creator = c}

PreRegistrations(t) ==
    {i \in DOMAIN pre.events :
        pre.events[i].type = "TokenAdded" /\ pre.events[i].token = t}

\* when the latest call began c had registered its token and another party
\* had registered it since and was its creator
Ousted(c) ==
    /\ last.token \in Tokens
    /\ Listed.supported
    /\ c # Creator
    /\ \E i \in PreRegistrations(last.token) : pre.events[i].creator = c

TakenOver == \E c \in Accounts : Ousted(c)

\* C25: once a token registered by c has been registered again by another
\* party, who is its creator now: a widthdrawToken of it by c fails with
\* Unauthorized and changes nothing; the new creator's widthdrawToken of any
\* amount up to all the engine holds, deposits of c included, is stopped only
\* by a token that refuses the transfer and hands the amount to the new
\* creator; a buyToken of it gets past the payment check only with amount
\* times the price of the latest registration, and that payment goes to the
\* new creator and not to c.
C25_TakenOver ==
    /\ (last.op = "widthdrawToken" /\ Ousted(last.sender)) =>
          (last.err = "Unauthorized" /\ Ledger = pre)
    /\ (last.op = "widthdrawToken" /\ TakenOver /\ last.sender = Creator
            /\ 0 < last.arg /\ last.arg <= Held) =>
          /\ last.err \in {"ok", "TransferFailed"}
          /\ last.err = "ok" =>
                /\ tok[last.token][last.sender] = pre.tok[last.token][last.sender] + last.arg
                /\ tok[last.token][Engine] = Held - last.arg
    /\ (last.op = "buyToken" /\ TakenOver) =>
          LET e == pre.events[CHOOSE i \in PreRegistrations(last.token) :
                                 \A j \in PreRegistrations(last.token) : j <= i]
          IN  /\ Listed.price = e.price /\ Creator = e.creator
              /\ last.err \in {"pending", "ok"} => last.value = e.price * last.arg
              /\ last.err = "pending" =>
                    /\ Top.creator = e.creator
                    /\ eth = Forward(pre.eth, last.sender, e.creator, last.value)
              /\ (last.err = "ok" /\ NothingNested) =>
                    eth = Forward(pre.eth, last.sender, e.creator, last.value)

\* the party that registered the token again takes out all that the first
\* creator deposited
C25_Witness ==
    /\ last.op = "widthdrawToken"
    /\ last.err = "ok"
    /\ TakenOver
    /\ ~Ousted(last.sender)
    /\ pre.tok[last.token][last.sender] = 0
    /\ last.arg = deposited[last.token]
    /\ tok[last.token][Engine] = 0
    /\ tok[last.token][last.sender] = last.arg

RECURSIVE SumOf(_, _)
\* the sum of the balances bal over the holders S
SumOf(bal, S) ==
    IF S = {} THEN 0
    ELSE LET h == CHOOSE x \in S : TRUE
         IN  bal[h] + SumOf(bal, S \ {h})

\* C26: the engine holds no native currency in any state, and no call
\* creates or destroys currency or tokens.  A buyToken that succeeds with
\* nothing nested in it has taken the payment from the buyer and given it to
\* the creator and to nobody else, and has moved amount * 10**18 tokens from
\* the engine to the buyer and no other token balance; a createICOSale moves
\* no currency and no tokens.
C26_ValueConserved ==
    /\ eth[Engine] = 0
    /\ SumOf(eth, Holders) = SumOf(pre.eth, Holders)
    /\ SumOf(eth, Holders) = Cardinality(Accounts) * InitEth
    /\ \A t \in Tokens : SumOf(tok[t], Holders) = InitTok
    /\ \A h \in Holders : eth[h] >= 0 /\ \A t \in Tokens : tok[t][h] >= 0
    /\ (last.op = "buyToken" /\ last.err = "ok" /\ NothingNested) =>
          /\ eth = Forward(pre.eth, last.sender, Creator, last.value)
          /\ \A h \in Holders \ {last.sender, Creator} : eth[h] = pre.eth[h]
          /\ tok[last.token][Engine] = Held - last.arg * UNIT
          /\ tok[last.token][last.sender] =
                pre.tok[last.token][last.sender] + last.arg * UNIT
          /\ \A t \in Tokens, h \in Holders :
                (t # last.token \/ h \notin {Engine, last.sender}) => tok[t][h] = pre.tok[t][h]
    /\ last.op = "createICOSale" => (eth = pre.eth /\ tok = pre.tok)

\* a paid purchase: the buyer has the payment less, the creator has it more
\* and the engine has none of it
C26_Witness ==
    /\ last.op = "buyToken"
    /\ last.err = "ok"
    /\ NothingNested
    /\ last.value > 0
    /\ last.sender # Creator
    /\ eth[last.sender] = pre.eth[last.sender] - last.value
    /\ eth[Creator] = pre.eth[Creator] + last.value
    /\ eth[Engine] = 0
    /\ tok[last.token][Engine] = Held - UNIT

\* u is an administrator: admin_roles has an active row for u or u is the
\* hardcoded administrator
IsAdministrator(u) == u # NoUser /\ (DbRole(u) # NoRole \/ u = ADMIN_USER_ID)

\* C27 as stated: under every interleaving of auth events and pending
\* checkAdminStatus calls, isAdmin is true and adminRole is set only while a
\* user is signed in, and only from the check of that user.
C27_AdminOnlyForSignedInUser ==
    /\ isAdmin => IsAdministrator(user)
    /\ adminRole # NoRole => IsAdministrator(user)
====
